---- MODULE Spec2Model ----
(***************************************************************************)
(* Model of megaverse.py: the MegaverseAPI client.                         *)
(*                                                                         *)
(* The client is single threaded.  Its control state is `mode` (which      *)
(* public operation is running) and `pc` (the position inside              *)
(* _handle_requests / _rate_time).  Straight-line Python statements take   *)
(* no time; the clock advances only while the program is blocked in        *)
(* time.sleep, while a request is in the transport, and between two calls  *)
(* of the client's user.  time.sleep may oversleep, never undersleep.      *)
(*                                                                         *)
(* A label of the goal grid is a sequence of tokens in which "_" is the    *)
(* separator character, e.g. <<"UP", "_", "COMETH">> is "UP_COMETH".       *)
(***************************************************************************)
EXTENDS Integers, Sequences, FiniteSets, TLC

\* ---- bounds of the model ------------------------------------------------
MaxTime == 4
MaxDelay == 2
MaxCalls == 2
MaxCells == 4

\* ---- program constants --------------------------------------------------
CrossSize == 11
CrossCenter == 5
CrossLow == 2
CrossHigh == 8
CrossLast == 10

VARIABLES
    env,                \* which user drives the client (scenario)
    clock,              \* datetime.now()
    candidate_id,       \* self.candidate_id
    request_delay,      \* self.request_delay
    last_request_time,  \* self.last_request_time
    mode,               \* running public operation: idle, single, goal, cross, logo
    pc,                 \* position in _handle_requests: idle, rate, sleep, record, send, inflight, ret
    req,                \* arguments of the running _handle_requests call
    op,                 \* running create_object / delete_object call, or NoOp
    wait_time,          \* wait_time of the running _rate_time call
    wake_at,            \* earliest clock value at which time.sleep returns
    retval,             \* value returned by the last _handle_requests call
    raised,             \* exception that left the running public operation
    ended,              \* how the last public operation ended: no, returned, aborted, raised
    sent,               \* requests handed to the transport, in order
    stamps,             \* history of values written to last_request_time by _rate_time
    completed,          \* clock at each return of _handle_requests
    results,            \* transport result of each request
    log,                \* logging output
    calls,              \* number of create_object / delete_object calls made
    invoked,            \* typed operations and direct create_object calls made, in order
    ci, cstep,          \* create_polyanet_cross: loop index, statement in the body
    response,           \* create_crossmint_logo: response
    li, lj              \* create_crossmint_logo: loop indices i, j

vars == <<env, clock, candidate_id, request_delay, last_request_time, mode, pc, req,
          op, wait_time, wake_at, retval, raised, ended, sent, stamps, completed,
          results, log, calls, invoked, ci, cstep, response, li, lj>>

\* ---- values -------------------------------------------------------------
\* JSON values as Python sees them: None, a dict (its keys and its "goal"), a list.
None == [kind |-> "none", keys |-> {}, goal |-> <<>>]
Dict(keys, goal) == [kind |-> "dict", keys |-> keys, goal |-> goal]
JsonList == [kind |-> "list", keys |-> {}, goal |-> <<>>]
EmptyDict == Dict({}, <<>>)

NoReq == [method |-> "none", endpoint |-> "none", kwards |-> <<>>]
NoOp == [verb |-> "none", object_type |-> "none"]

SoloonColor == [BLUE |-> "blue", RED |-> "red", PURPLE |-> "purple", WHITE |-> "white"]
ComethDirection == [UP |-> "up", DOWN |-> "down", RIGHT |-> "right", LEFT |-> "left"]

\* dict merge {**a, **b}: the later mapping wins on a shared key
Merge(a, b) == [k \in DOMAIN a \cup DOMAIN b |-> IF k \in DOMAIN b THEN b[k] ELSE a[k]]

\* payload = {"candidateId": self.candidate_id, **kwards}
Payload(cid, kwards) == Merge([candidateId |-> cid], kwards)

\* url = f"{self.base_url}/{endpoint}" (base_url is fixed; the endpoint identifies the url)
GoalEndpoint(cid) == <<"map", cid, "goal">>
ObjEndpoint(object_type) == <<object_type>>

\* str.capitalize() on the object types in use
Capitalize(s) ==
    CASE s = "polyanets" -> "Polyanets"
      [] s = "soloons" -> "Soloons"
      [] s = "comeths" -> "Comeths"
      [] OTHER -> s

\* ---- transport results and the except chain -----------------------------
\* What requests.<method>(...), raise_for_status() and json() can do:
\* return a decoded body ("ok") or raise one of these exception classes.
Faults == {"HTTPError", "ConnectionError", "ConnectTimeout", "ReadTimeout",
           "JSONDecodeError", "TooManyRedirects"}

\* class hierarchy of requests.exceptions (each class with its ancestors)
Ancestors(cls) ==
    CASE cls = "HTTPError" -> {"HTTPError", "RequestException"}
      [] cls = "ConnectionError" -> {"ConnectionError", "RequestException"}
      [] cls = "ConnectTimeout" -> {"ConnectTimeout", "ConnectionError", "Timeout", "RequestException"}
      [] cls = "ReadTimeout" -> {"ReadTimeout", "Timeout", "RequestException"}
      [] cls = "JSONDecodeError" -> {"JSONDecodeError", "InvalidJSONError", "RequestException"}
      [] cls = "TooManyRedirects" -> {"TooManyRedirects", "RequestException"}
      [] OTHER -> {cls}

\* the except clauses of _handle_requests, in order: <<class caught, message logged>>
ExceptChain ==
    << <<"HTTPError", "HTTP Error">>,
       <<"ConnectionError", "Error Connecting">>,
       <<"Timeout", "Timeout Error">>,
       <<"RequestException", "Something weird went wrong">> >>

\* ---- the users of the client --------------------------------------------
\* results the transport may produce for this user
Results(e) ==
    CASE e = "faults" -> {"ok"} \cup Faults
      [] OTHER -> {"ok", "HTTPError"}

\* labels: "_" is the separator character of str.split("_")
SPACE == <<"SPACE">>
POLYANET == <<"POLYANET">>
Label(first, second) == <<first, "_", second>>

\* labels of the goal grids explored in full
BuildLabels ==
    {SPACE, POLYANET, Label("UP", "COMETH"), Label("RED", "SOLOON"),
     Label("BOGUS", "COMETH"), Label("PINK", "SOLOON")}

\* labels explored in one-row grids of at most two cells
AllLabels ==
    BuildLabels
    \cup {Label(d, "COMETH") : d \in DOMAIN ComethDirection}
    \cup {Label(c, "SOLOON") : c \in DOMAIN SoloonColor}
    \cup {Label("RED", "COMETH"), Label("UP", "SOLOON"), Label("RED", "FOO"),
          Label("UP", "FOO"), <<"FOO">>, <<"RED", "_", "SOLOON", "_", "X">>}

Shapes == {s \in (1..MaxCells) \X (1..MaxCells) : s[1] * s[2] <= MaxCells}
GridsOver(rows, cols, labels) == [1..rows -> [1..cols -> labels]]
Grids ==
    {<<>>}
    \cup UNION {GridsOver(s[1], s[2], BuildLabels) : s \in Shapes}
    \cup GridsOver(1, 1, AllLabels) \cup GridsOver(1, 2, AllLabels)

\* goal grids of the builds explored with a running clock
TimedGrids ==
    GridsOver(1, 1, BuildLabels) \cup GridsOver(1, 2, BuildLabels)
    \cup GridsOver(2, 1, BuildLabels)

\* bodies a successful response may carry for this user and request
Bodies(e, method) ==
    IF e = "build" /\ method = "get"
    THEN {JsonList, EmptyDict} \cup {Dict({"goal"}, g) : g \in Grids}
    ELSE IF e = "timed" /\ method = "get"
    THEN {JsonList, EmptyDict} \cup {Dict({"goal"}, g) : g \in TimedGrids}
    ELSE {EmptyDict}

\* ---- _rate_time -----------------------------------------------------------
\* faulty variant: sleeps for the time already elapsed instead of the time remaining
WaitTimeElapsed(now, last, delay) ==
    IF now - last < delay THEN now - last ELSE 0

\* faulty variant: the wait loses a clock unit (total_seconds() truncated)
WaitTimeTruncated(now, last, delay) ==
    IF now - last < delay THEN delay - (now - last) - 1 ELSE 0

\* lines 57-60: the wait computed from now, last_request_time and request_delay
WaitTime(now, last, delay) ==
    IF now - last < delay THEN delay - (now - last) ELSE 0

\* lines 57-61: read the clock, compute the wait, call time.sleep when it is due
RateTime ==
    /\ pc = "rate"
    /\ wait_time' = WaitTime(clock, last_request_time, request_delay)
    /\ wake_at' = clock + wait_time'
    /\ pc' = IF clock - last_request_time < request_delay THEN "sleep" ELSE "record"
    /\ UNCHANGED <<env, clock, candidate_id, request_delay, last_request_time, mode, req,
                   op, retval, raised, ended, sent, stamps, completed, results, log,
                   calls, invoked, ci, cstep, response, li, lj>>

\* line 61: time.sleep(wait_time) returns, not before wait_time has passed
Sleep ==
    /\ pc = "sleep"
    /\ clock >= wake_at
    /\ pc' = "record"
    /\ UNCHANGED <<env, clock, candidate_id, request_delay, last_request_time, mode, req,
                   op, wait_time, wake_at, retval, raised, ended, sent, stamps, completed,
                   results, log, calls, invoked, ci, cstep, response, li, lj>>

\* the value line 63 stores
Stamp(now) == now

\* line 63: record the timestamp
RateRecord ==
    /\ pc = "record"
    /\ last_request_time' = Stamp(clock)
    /\ stamps' = Append(stamps, last_request_time')
    /\ pc' = "send"
    /\ UNCHANGED <<env, clock, candidate_id, request_delay, mode, req, op, wait_time,
                   wake_at, retval, raised, ended, sent, completed, results, log,
                   calls, invoked, ci, cstep, response, li, lj>>

\* ---- _handle_requests -----------------------------------------------------
\* faulty variant: the request is sent without the throttle step
HandleRequestsUnthrottled(method, endpoint, kwards) ==
    /\ req' = [method |-> method, endpoint |-> endpoint, kwards |-> kwards]
    /\ pc' = "send"

\* line 78: entering _handle_requests(method, endpoint, **kwards)
HandleRequests(method, endpoint, kwards) ==
    /\ req' = [method |-> method, endpoint |-> endpoint, kwards |-> kwards]
    /\ pc' = "rate"

\* lines 79-82: build url and payload, hand the request to the transport
Send ==
    /\ pc = "send"
    /\ sent' = Append(sent, [method |-> req.method, endpoint |-> req.endpoint,
                             payload |-> Payload(candidate_id, req.kwards),
                             at |-> clock])
    /\ pc' = "inflight"
    /\ UNCHANGED <<env, clock, candidate_id, request_delay, last_request_time, mode, req,
                   op, wait_time, wake_at, retval, raised, ended, stamps, completed,
                   results, log, calls, invoked, ci, cstep, response, li, lj>>

\* faulty variant: a clause catches only the exact class it names
HandlerExactClass(cls) ==
    LET hits == {k \in 1..Len(ExceptChain) : ExceptChain[k][1] = cls}
    IN IF hits = {} THEN 0 ELSE CHOOSE k \in hits : \A m \in hits : k <= m

\* faulty variant: the HTTPError clause and the catch-all clause are missing
HandlerWithoutHTTPError(cls) ==
    LET hits == {k \in 2..(Len(ExceptChain) - 1) : ExceptChain[k][1] \in Ancestors(cls)}
    IN IF hits = {} THEN 0 ELSE CHOOSE k \in hits : \A m \in hits : k <= m

\* index of the first clause that catches cls, 0 if none does
Handler(cls) ==
    LET hits == {k \in 1..Len(ExceptChain) : ExceptChain[k][1] \in Ancestors(cls)}
    IN IF hits = {} THEN 0 ELSE CHOOSE k \in hits : \A m \in hits : k <= m

\* faulty variant: a failed request is handed to the transport again
AfterCaughtRetry == "send"

\* lines 86-93: an except clause logs and falls off the end of the function
AfterCaught == "ret"

\* faulty variant: the timestamp is written again when the request completes
ReceiveStamps ==
    /\ pc = "inflight"
    /\ \E r \in Results(env) :
       \E body \in (IF r = "ok" THEN Bodies(env, req.method) ELSE {None}) :
         /\ results' = Append(results, [outcome |-> r, body |-> body])
         /\ IF r = "ok"
            THEN /\ retval' = body
                 /\ pc' = "ret"
                 /\ UNCHANGED <<log, raised, ended, mode, op>>
            ELSE IF Handler(r) # 0
            THEN /\ log' = Append(log, <<"ERROR", ExceptChain[Handler(r)][2]>>)
                 /\ retval' = None
                 /\ pc' = AfterCaught
                 /\ UNCHANGED <<raised, ended, mode, op>>
            ELSE /\ raised' = r
                 /\ ended' = "raised"
                 /\ mode' = "idle"
                 /\ pc' = "idle"
                 /\ op' = NoOp
                 /\ UNCHANGED <<log, retval>>
    /\ completed' = Append(completed, clock)
    /\ last_request_time' = clock
    /\ UNCHANGED <<env, clock, candidate_id, request_delay, req,
                   wait_time, wake_at, sent, stamps, calls, invoked, ci, cstep, response, li, lj>>

\* lines 82-93: the transport answers; return the body, or log and return None;
\* an exception no clause catches leaves the running public operation
Receive ==
    /\ pc = "inflight"
    /\ \E r \in Results(env) :
       \E body \in (IF r = "ok" THEN Bodies(env, req.method) ELSE {None}) :
         /\ results' = Append(results, [outcome |-> r, body |-> body])
         /\ IF r = "ok"
            THEN /\ retval' = body
                 /\ pc' = "ret"
                 /\ UNCHANGED <<log, raised, ended, mode, op>>
            ELSE IF Handler(r) # 0
            THEN /\ log' = Append(log, <<"ERROR", ExceptChain[Handler(r)][2]>>)
                 /\ retval' = None
                 /\ pc' = AfterCaught
                 /\ UNCHANGED <<raised, ended, mode, op>>
            ELSE /\ raised' = r
                 /\ ended' = "raised"
                 /\ mode' = "idle"
                 /\ pc' = "idle"
                 /\ op' = NoOp
                 /\ UNCHANGED <<log, retval>>
    /\ completed' = Append(completed, clock)
    /\ UNCHANGED <<env, clock, candidate_id, request_delay, last_request_time, req,
                   wait_time, wake_at, sent, stamps, calls, invoked, ci, cstep, response, li, lj>>

\* ---- create_object / delete_object and the typed wrappers -----------------
\* faulty variant: a create for a position already requested is not dispatched again
CreateObjectOnce(object_type, row, column, kwargs) ==
    /\ calls' = calls + 1
    /\ op' = [verb |-> "created", object_type |-> object_type]
    /\ IF \E k \in 1..Len(sent) :
             /\ sent[k].method = "post"
             /\ sent[k].endpoint = ObjEndpoint(object_type)
             /\ sent[k].payload.row = row /\ sent[k].payload.column = column
       THEN pc' = "ret" /\ req' = req
       ELSE HandleRequests("post", ObjEndpoint(object_type),
                           Merge([row |-> row, column |-> column], kwargs))

\* line 110: create_object(object_type, row, column, **kwargs) calls _handle_requests
CreateObject(object_type, row, column, kwargs) ==
    /\ calls' = calls + 1
    /\ op' = [verb |-> "created", object_type |-> object_type]
    /\ HandleRequests("post", ObjEndpoint(object_type),
                      Merge([row |-> row, column |-> column], kwargs))

\* line 127: delete_object(object_type, row, column) calls _handle_requests
DeleteObject(object_type, row, column) ==
    /\ calls' = calls + 1
    /\ op' = [verb |-> "deleted", object_type |-> object_type]
    /\ HandleRequests("delete", ObjEndpoint(object_type), [row |-> row, column |-> column])

\* the call of a public operation, as its caller made it
Invoke(name, row, column, attr) ==
    invoked' = Append(invoked, [name |-> name, row |-> row, column |-> column, attr |-> attr])

CreateSoloon(row, column, color) ==
    /\ Invoke("create_soloon", row, column, color)
    /\ CreateObject("soloons", row, column, [color |-> color])
DeleteSoloon(row, column) ==
    /\ Invoke("delete_soloon", row, column, "")
    /\ DeleteObject("soloons", row, column)
CreateCometh(row, column, direction) ==
    /\ Invoke("create_cometh", row, column, direction)
    /\ CreateObject("comeths", row, column, [direction |-> direction])
\* faulty variant: delete_cometh deletes on the soloons endpoint
DeleteComethAsSoloon(row, column) ==
    /\ Invoke("delete_cometh", row, column, "")
    /\ DeleteObject("soloons", row, column)
DeleteCometh(row, column) ==
    /\ Invoke("delete_cometh", row, column, "")
    /\ DeleteObject("comeths", row, column)
CreatePolyanet(row, column) ==
    /\ Invoke("create_polyanet", row, column, "")
    /\ CreateObject("polyanets", row, column, <<>>)
DeletePolyanet(row, column) ==
    /\ Invoke("delete_polyanet", row, column, "")
    /\ DeleteObject("polyanets", row, column)

\* lines 116 / 128: the success notice logged after _handle_requests returned
Notice(o) == <<"INFO", Capitalize(o.object_type), "successfully", o.verb>>

\* ---- the user's calls ------------------------------------------------------
\* typed create / delete calls the user of each scenario makes: <<kind, row, column, attribute>>
UserCreates(e) ==
    CASE e = "rate" -> {<<"polyanet", 0, 0, "">>, <<"cometh", 0, 0, "up">>}
      [] e = "faults" -> {<<"polyanet", 0, 0, "">>}
      [] OTHER -> {<<"polyanet", 0, 0, "">>, <<"polyanet", 1, 0, "">>,
                   <<"soloon", 0, 0, "red">>, <<"soloon", 0, 0, "blue">>,
                   <<"cometh", 0, 0, "up">>}

UserDeletes(e) ==
    CASE e = "rate" -> {<<"soloon", 0, 0>>}
      [] e = "faults" -> {<<"cometh", 0, 0>>}
      [] OTHER -> {<<"polyanet", 0, 0>>, <<"soloon", 0, 0>>, <<"cometh", 0, 0>>}

\* extra keyword arguments of the user's direct create_object calls
UserKwargs == {[candidateId |-> "intruder"], [color |-> "white"]}

Ready == mode = "idle" /\ pc = "idle" /\ Len(sent) < MaxCalls

UserCreate ==
    /\ Ready
    /\ \E a \in UserCreates(env) :
         IF a[1] = "soloon" THEN CreateSoloon(a[2], a[3], a[4])
         ELSE IF a[1] = "cometh" THEN CreateCometh(a[2], a[3], a[4])
         ELSE CreatePolyanet(a[2], a[3])
    /\ mode' = "single"
    /\ ended' = "no"
    /\ UNCHANGED <<env, clock, candidate_id, request_delay, last_request_time, wait_time,
                   wake_at, retval, raised, sent, stamps, completed, results, log,
                   ci, cstep, response, li, lj>>

UserDelete ==
    /\ Ready
    /\ \E a \in UserDeletes(env) :
         IF a[1] = "soloon" THEN DeleteSoloon(a[2], a[3])
         ELSE IF a[1] = "cometh" THEN DeleteCometh(a[2], a[3])
         ELSE DeletePolyanet(a[2], a[3])
    /\ mode' = "single"
    /\ ended' = "no"
    /\ UNCHANGED <<env, clock, candidate_id, request_delay, last_request_time, wait_time,
                   wake_at, retval, raised, sent, stamps, completed, results, log,
                   ci, cstep, response, li, lj>>

UserCreateObject ==
    /\ Ready
    /\ \E kwargs \in UserKwargs : CreateObject("soloons", 0, 0, kwargs)
    /\ Invoke("create_object", 0, 0, "")
    /\ mode' = "single"
    /\ ended' = "no"
    /\ UNCHANGED <<env, clock, candidate_id, request_delay, last_request_time, wait_time,
                   wake_at, retval, raised, sent, stamps, completed, results, log,
                   ci, cstep, response, li, lj>>

\* faulty variant: the success notice is logged only when the request succeeded
ObjectReturnOnlyOnSuccess ==
    /\ mode = "single"
    /\ pc = "ret"
    /\ log' = (IF retval = None THEN log ELSE Append(log, Notice(op)))
    /\ op' = NoOp
    /\ pc' = "idle"
    /\ mode' = "idle"
    /\ ended' = "returned"
    /\ UNCHANGED <<env, clock, candidate_id, request_delay, last_request_time, req,
                   wait_time, wake_at, retval, raised, sent, stamps, completed, results,
                   calls, invoked, ci, cstep, response, li, lj>>

\* lines 116 / 128, then back in the user's code
ObjectReturn ==
    /\ mode = "single"
    /\ pc = "ret"
    /\ log' = Append(log, Notice(op))
    /\ op' = NoOp
    /\ pc' = "idle"
    /\ mode' = "idle"
    /\ ended' = "returned"
    /\ UNCHANGED <<env, clock, candidate_id, request_delay, last_request_time, req,
                   wait_time, wake_at, retval, raised, sent, stamps, completed, results,
                   calls, invoked, ci, cstep, response, li, lj>>

\* ---- goal_map ---------------------------------------------------------------
\* lines 248-249: goal_map() calls _handle_requests
GoalMap == HandleRequests("get", GoalEndpoint(candidate_id), <<>>)

UserGoalMap ==
    /\ Ready
    /\ GoalMap
    /\ mode' = "goal"
    /\ ended' = "no"
    /\ UNCHANGED <<env, clock, candidate_id, request_delay, last_request_time, op,
                   wait_time, wake_at, retval, raised, sent, stamps, completed, results,
                   log, calls, invoked, ci, cstep, response, li, lj>>

\* line 250, then back in the user's code
GoalReturn ==
    /\ mode = "goal"
    /\ pc = "ret"
    /\ pc' = "idle"
    /\ mode' = "idle"
    /\ ended' = "returned"
    /\ UNCHANGED <<env, clock, candidate_id, request_delay, last_request_time, req, op,
                   wait_time, wake_at, retval, raised, sent, stamps, completed, results,
                   log, calls, invoked, ci, cstep, response, li, lj>>

\* ---- create_polyanet_cross --------------------------------------------------
\* faulty variant: the main diagonal is placed on every row, the second arm on rows 2..8
CrossBranchFullDiagonal(i) ==
    IF i = CrossCenter \/ i < CrossLow \/ i > CrossHigh THEN "one" ELSE "two"

\* lines 199-203: what the loop body does for row i:
\* "one" = create (i, i); "two" = create (i, i) then (i, 10 - i); "skip" = nothing
CrossBranch(i) ==
    IF i = CrossCenter THEN "one"
    ELSE IF i >= CrossLow /\ i <= CrossHigh THEN "two"
    ELSE "skip"

UserCross ==
    /\ mode = "idle" /\ pc = "idle" /\ ended = "no"
    /\ mode' = "cross"
    /\ ci' = 0
    /\ cstep' = 0
    /\ UNCHANGED <<env, clock, candidate_id, request_delay, last_request_time, pc, req,
                   op, wait_time, wake_at, retval, raised, ended, sent, stamps, completed,
                   results, log, calls, invoked, response, li, lj>>

\* lines 198-203: the next statement of the loop
CrossLoop ==
    /\ mode = "cross"
    /\ pc = "idle"
    /\ IF ci >= CrossSize
       THEN /\ mode' = "idle"
            /\ ended' = "returned"
            /\ UNCHANGED <<pc, req, op, calls, invoked, ci, cstep>>
       ELSE IF CrossBranch(ci) = "skip"
       THEN /\ ci' = ci + 1
            /\ UNCHANGED <<mode, ended, pc, req, op, calls, invoked, cstep>>
       ELSE /\ IF cstep = 0
               THEN CreatePolyanet(ci, ci)
               ELSE CreatePolyanet(ci, CrossLast - ci)
            /\ UNCHANGED <<mode, ended, ci, cstep>>
    /\ UNCHANGED <<env, clock, candidate_id, request_delay, last_request_time, wait_time,
                   wake_at, retval, raised, sent, stamps, completed, results, log,
                   response, li, lj>>

\* line 116, then back in the loop body
CrossReturn ==
    /\ mode = "cross"
    /\ pc = "ret"
    /\ log' = Append(log, Notice(op))
    /\ op' = NoOp
    /\ pc' = "idle"
    /\ IF CrossBranch(ci) = "two" /\ cstep = 0
       THEN cstep' = 1 /\ ci' = ci
       ELSE cstep' = 0 /\ ci' = ci + 1
    /\ UNCHANGED <<env, clock, candidate_id, request_delay, last_request_time, mode, req,
                   wait_time, wake_at, retval, raised, ended, sent, stamps, completed,
                   results, calls, invoked, response, li, lj>>

\* ---- create_crossmint_logo --------------------------------------------------
\* str.split("_"): the segments between the separators
RECURSIVE Split(_)
Split(name) ==
    IF \A k \in 1..Len(name) : name[k] # "_"
    THEN <<name>>
    ELSE LET k == CHOOSE k \in 1..Len(name) :
                      name[k] = "_" /\ \A m \in 1..(k - 1) : name[m] # "_"
         IN <<SubSeq(name, 1, k - 1)>> \o Split(SubSeq(name, k + 1, Len(name)))

\* getattr(enum, text) finds a member
IsMember(enum, text) == Len(text) = 1 /\ text[1] \in DOMAIN enum

\* faulty variant: the member's name is sent instead of its value
ValueIsName(enum, text) == text[1]

\* getattr(enum, text).value
Value(enum, text) == enum[text[1]]

Cell(kind, attr, text) == [kind |-> kind, attr |-> attr, text |-> text]

\* faulty variant: an unrecognized direction or color skips the cell instead of ending the build
InterpretSkipsInvalid(object_name) ==
    IF object_name = SPACE THEN Cell("skip", "", <<>>)
    ELSE IF object_name = POLYANET THEN Cell("polyanet", "", <<>>)
    ELSE IF Len(Split(object_name)) < 2 THEN Cell("IndexError", "", <<>>)
    ELSE LET text == Split(object_name)[1]
         IN IF Split(object_name)[2] = <<"COMETH">>
            THEN IF IsMember(ComethDirection, text)
                 THEN Cell("cometh", Value(ComethDirection, text), text)
                 ELSE Cell("skip", "", text)
            ELSE IF IsMember(SoloonColor, text)
                 THEN Cell("soloon", Value(SoloonColor, text), text)
                 ELSE Cell("skip", "", text)

\* faulty variant: a _COMETH label is looked up among the colors too
InterpretSharedNames(object_name) ==
    IF object_name = SPACE THEN Cell("skip", "", <<>>)
    ELSE IF object_name = POLYANET THEN Cell("polyanet", "", <<>>)
    ELSE IF Len(Split(object_name)) < 2 THEN Cell("IndexError", "", <<>>)
    ELSE LET text == Split(object_name)[1]
         IN IF Split(object_name)[2] = <<"COMETH">>
            THEN IF IsMember(ComethDirection, text)
                 THEN Cell("cometh", Value(ComethDirection, text), text)
                 ELSE IF IsMember(SoloonColor, text)
                 THEN Cell("cometh", Value(SoloonColor, text), text)
                 ELSE Cell("invalid", "", text)
            ELSE IF IsMember(SoloonColor, text)
                 THEN Cell("soloon", Value(SoloonColor, text), text)
                 ELSE Cell("invalid", "", text)

\* lines 213-239: what the loop body does with one label
Interpret(object_name) ==
    IF object_name = SPACE THEN Cell("skip", "", <<>>)
    ELSE IF object_name = POLYANET THEN Cell("polyanet", "", <<>>)
    ELSE IF Len(Split(object_name)) < 2 THEN Cell("IndexError", "", <<>>)
    ELSE LET text == Split(object_name)[1]
         IN IF Split(object_name)[2] = <<"COMETH">>
            THEN IF IsMember(ComethDirection, text)
                 THEN Cell("cometh", Value(ComethDirection, text), text)
                 ELSE Cell("invalid", "", text)
            ELSE IF IsMember(SoloonColor, text)
                 THEN Cell("soloon", Value(SoloonColor, text), text)
                 ELSE Cell("invalid", "", text)

\* line 209: create_crossmint_logo() calls goal_map()
UserLogo ==
    /\ mode = "idle" /\ pc = "idle" /\ ended = "no"
    /\ mode' = "logo"
    /\ GoalMap
    /\ UNCHANGED <<env, clock, candidate_id, request_delay, last_request_time, op,
                   wait_time, wake_at, retval, raised, ended, sent, stamps, completed,
                   results, log, calls, invoked, ci, cstep, response, li, lj>>

\* lines 209-211: goal_map() returned; isinstance(response, dict), response["goal"]
LogoFetched ==
    /\ mode = "logo"
    /\ pc = "ret"
    /\ op = NoOp
    /\ response' = retval
    /\ pc' = "idle"
    /\ li' = 0
    /\ lj' = 0
    /\ IF retval.kind # "dict"
       THEN mode' = "idle" /\ ended' = "returned" /\ UNCHANGED raised
       ELSE IF "goal" \notin retval.keys
       THEN mode' = "idle" /\ ended' = "raised" /\ raised' = "KeyError"
       ELSE UNCHANGED <<mode, ended, raised>>
    /\ UNCHANGED <<env, clock, candidate_id, request_delay, last_request_time, req, op,
                   wait_time, wake_at, retval, sent, stamps, completed, results, log,
                   calls, invoked, ci, cstep>>

\* lines 211-239: the next step of the two loops
LogoLoop ==
    /\ mode = "logo"
    /\ pc = "idle"
    /\ IF li >= Len(response.goal)
       THEN /\ mode' = "idle"
            /\ ended' = "returned"
            /\ UNCHANGED <<pc, req, op, calls, invoked, raised, log, li, lj>>
       ELSE IF lj >= Len(response.goal[li + 1])
       THEN /\ li' = li + 1
            /\ lj' = 0
            /\ UNCHANGED <<mode, ended, pc, req, op, calls, invoked, raised, log>>
       ELSE LET cell == Interpret(response.goal[li + 1][lj + 1])
            IN IF cell.kind = "skip"
               THEN /\ lj' = lj + 1
                    /\ UNCHANGED <<mode, ended, pc, req, op, calls, invoked, raised, log, li>>
               ELSE IF cell.kind = "IndexError"
               THEN /\ mode' = "idle"
                    /\ ended' = "raised"
                    /\ raised' = "IndexError"
                    /\ UNCHANGED <<pc, req, op, calls, invoked, log, li, lj>>
               ELSE IF cell.kind = "invalid"
               THEN /\ log' = Append(log, <<"ERROR", "Invalid Soloon direction", cell.text>>)
                    /\ mode' = "idle"
                    /\ ended' = "aborted"
                    /\ UNCHANGED <<pc, req, op, calls, invoked, raised, li, lj>>
               ELSE /\ IF cell.kind = "polyanet" THEN CreatePolyanet(li, lj)
                       ELSE IF cell.kind = "cometh" THEN CreateCometh(li, lj, cell.attr)
                       ELSE CreateSoloon(li, lj, cell.attr)
                    /\ UNCHANGED <<mode, ended, raised, log, li, lj>>
    /\ UNCHANGED <<env, clock, candidate_id, request_delay, last_request_time, wait_time,
                   wake_at, retval, sent, stamps, completed, results, ci, cstep, response>>

\* line 116, then the next iteration of the inner loop
LogoReturn ==
    /\ mode = "logo"
    /\ pc = "ret"
    /\ op # NoOp
    /\ log' = Append(log, Notice(op))
    /\ op' = NoOp
    /\ pc' = "idle"
    /\ lj' = lj + 1
    /\ UNCHANGED <<env, clock, candidate_id, request_delay, last_request_time, mode, req,
                   wait_time, wake_at, retval, raised, ended, sent, stamps, completed,
                   results, calls, invoked, ci, cstep, response, li>>

\* ---- time -------------------------------------------------------------------
\* the clock advances while the program sleeps, waits for the transport, or is not called
Tick ==
    /\ clock < MaxTime
    /\ \/ pc \in {"sleep", "inflight"}
       \/ Ready
    /\ clock' = clock + 1
    /\ UNCHANGED <<env, candidate_id, request_delay, last_request_time, mode, pc, req,
                   op, wait_time, wake_at, retval, raised, ended, sent, stamps, completed,
                   results, log, calls, invoked, ci, cstep, response, li, lj>>

\* ---- specifications ---------------------------------------------------------
\* state after MegaverseAPI(config_path), lines 46-53
InitOf(e, delays) ==
    /\ env = e
    /\ clock = 0
    /\ candidate_id = "c1"
    /\ request_delay \in delays
    /\ last_request_time = clock
    /\ mode = "idle"
    /\ pc = "idle"
    /\ req = NoReq
    /\ op = NoOp
    /\ wait_time = 0
    /\ wake_at = 0
    /\ retval = None
    /\ raised = "none"
    /\ ended = "no"
    /\ sent = <<>>
    /\ stamps = <<>>
    /\ completed = <<>>
    /\ results = <<>>
    /\ log = <<>>
    /\ calls = 0
    /\ invoked = <<>>
    /\ ci = 0
    /\ cstep = 0
    /\ response = None
    /\ li = 0
    /\ lj = 0

Dispatch == RateTime \/ RateRecord \/ Send \/ Receive

\* a user making single calls while time passes
Init == InitOf("rate", 0..MaxDelay)
Next ==
    \/ UserCreate \/ UserDelete \/ UserGoalMap
    \/ Dispatch \/ Sleep \/ Tick
    \/ ObjectReturn \/ GoalReturn
Spec == Init /\ [][Next]_vars

\* a user calling create_polyanet_cross once
InitCross == InitOf("cross", {0})
NextCross == UserCross \/ CrossLoop \/ CrossReturn \/ Dispatch
SpecCross == InitCross /\ [][NextCross]_vars

\* the program's entry point: one create_crossmint_logo run (lines 253-257)
InitBuild == InitOf("build", {0})
NextBuild == UserLogo \/ LogoFetched \/ LogoLoop \/ LogoReturn \/ Dispatch
SpecBuild == InitBuild /\ [][NextBuild]_vars

\* a user making single calls, direct create_object calls among them
InitApi == InitOf("api", {0})
NextApi ==
    \/ UserCreate \/ UserDelete \/ UserCreateObject \/ UserGoalMap
    \/ Dispatch \/ ObjectReturn \/ GoalReturn
SpecApi == InitApi /\ [][NextApi]_vars

\* a user making single calls over a transport that fails in every way
InitFaults == InitOf("faults", {0})
NextFaults ==
    \/ UserCreate \/ UserDelete \/ UserGoalMap
    \/ Dispatch \/ ObjectReturn \/ GoalReturn
SpecFaults == InitFaults /\ [][NextFaults]_vars

\* one create_crossmint_logo run on a small grid while time passes
InitTimed == InitOf("timed", 1..MaxDelay)
NextTimed ==
    \/ UserLogo \/ LogoFetched \/ LogoLoop \/ LogoReturn
    \/ Dispatch \/ Sleep \/ Tick
SpecTimed == InitTimed /\ [][NextTimed]_vars

\* the same run, the program always taking its next step and the transport
\* always answering
SpecBuildFair == SpecBuild /\ WF_vars(NextBuild)

\* ---- claims -----------------------------------------------------------------
Pairs(seq) == 1..(Len(seq) - 1)

\* C1: the timestamps recorded by two consecutive throttle steps, and the instants
\* at which two consecutive requests are handed to the transport, are at least
\* request_delay apart, whatever the calls are and however long the client idled.
C1_MinGap ==
    /\ \A k \in Pairs(stamps) : stamps[k + 1] - stamps[k] >= request_delay
    /\ \A k \in Pairs(sent) : sent[k + 1].at - sent[k].at >= request_delay

\* a create after an idle period of two delays, followed at once by a delete that
\* still had to wait the whole delay
C1_Witness ==
    /\ request_delay > 0
    /\ Len(sent) = 2
    /\ sent[1].method = "post" /\ sent[2].method = "delete"
    /\ stamps[1] >= 2 * request_delay
    /\ completed[1] = stamps[1]
    /\ sent[2].at - sent[1].at = request_delay

\* C2 as stated: consecutive returns of _handle_requests are at least request_delay apart
C2_CompletionGap ==
    \A k \in Pairs(completed) : completed[k + 1] - completed[k] >= request_delay

\* C2 amended: the return of call k+1 is at least request_delay after the instant
\* the request of call k was handed to the transport
C2_IssueToCompletion ==
    \A k \in 1..Len(completed) :
        k > 1 => completed[k] - sent[k - 1].at >= request_delay

\* a long request followed by a short one: both returned less than a delay apart
C2_Witness ==
    /\ request_delay > 0
    /\ Len(completed) = 2
    /\ completed[1] - sent[1].at >= request_delay
    /\ completed[2] - completed[1] < request_delay

Position(r) == <<r.payload.row, r.payload.column>>
Requested == {Position(sent[k]) : k \in 1..Len(sent)}
NoRepeat == \A k, m \in 1..Len(sent) : Position(sent[k]) = Position(sent[m]) => k = m
CrossDone == env = "cross" /\ mode = "idle" /\ ended = "returned"
OnlyPolyanetCreates ==
    \A k \in 1..Len(sent) :
        sent[k].method = "post" /\ sent[k].endpoint = ObjEndpoint("polyanets")

\* C3 as stated: the cross is the 17 positions (i,i), i in 0..10, and (i,10-i),
\* i in 2..8 except 5, each requested once
C3_SeventeenPoints ==
    CrossDone =>
        /\ Requested = {<<i, i>> : i \in 0..10}
                          \cup {<<i, 10 - i>> : i \in (2..8) \ {5}}
        /\ Len(sent) = 17
        /\ NoRepeat

\* C3 amended: create_polyanet_cross requests exactly the 13 positions (i,i),
\* i in 2..8, and (i,10-i), i in 2..8 except 5, each once, all as polyanet creates;
\* rows 0, 1, 9 and 10 get no request
C3_ThirteenPoints ==
    CrossDone =>
        /\ Requested = {<<i, i>> : i \in 2..8}
                          \cup {<<i, 10 - i>> : i \in (2..8) \ {5}}
        /\ Len(sent) = 13
        /\ NoRepeat
        /\ OnlyPolyanetCreates

\* the cross has been built, some of its requests having failed
C3_Witness ==
    /\ CrossDone
    /\ Len(sent) = 13
    /\ \E k \in 1..Len(results) : results[k].outcome # "ok"

\* ---- the goal grid as the claims read it ------------------------------------
RowCells(grid, i) ==
    [j \in 1..Len(grid[i]) |-> [row |-> i - 1, column |-> j - 1, label |-> grid[i][j]]]

RECURSIVE CellsFrom(_, _)
CellsFrom(grid, i) ==
    IF i > Len(grid) THEN <<>> ELSE RowCells(grid, i) \o CellsFrom(grid, i + 1)

\* the cells in row-major order: rows ascending, columns ascending within a row
RowMajor(grid) == CellsFrom(grid, 1)

DefinedLabel(l) ==
    \/ l \in {SPACE, POLYANET}
    \/ \E d \in {"UP", "DOWN", "RIGHT", "LEFT"} : l = <<d, "_", "COMETH">>
    \/ \E c \in {"BLUE", "RED", "PURPLE", "WHITE"} : l = <<c, "_", "SOLOON">>

\* a label of two or more parts whose direction (second part COMETH) or color
\* (any other second part) is not a recognized name
InvalidLabel(l) ==
    /\ Len(l) >= 3
    /\ l[2] = "_"
    /\ IF l[3] = "COMETH"
       THEN l[1] \notin {"UP", "DOWN", "RIGHT", "LEFT"}
       ELSE l[1] \notin {"BLUE", "RED", "PURPLE", "WHITE"}

\* a label without an underscore other than SPACE and POLYANET
UndefinedLabel(l) == Len(l) = 1 /\ l \notin {SPACE, POLYANET}

LowerCase(name) ==
    CASE name = "UP" -> "up" [] name = "DOWN" -> "down"
      [] name = "RIGHT" -> "right" [] name = "LEFT" -> "left"
      [] name = "BLUE" -> "blue" [] name = "RED" -> "red"
      [] name = "PURPLE" -> "purple" [] name = "WHITE" -> "white"
      [] OTHER -> name

\* the create request a non-SPACE cell stands for
ExpectedRequest(cell) ==
    LET at == [candidateId |-> candidate_id, row |-> cell.row, column |-> cell.column]
    IN IF cell.label = POLYANET
       THEN [method |-> "post", endpoint |-> <<"polyanets">>, payload |-> at]
       ELSE IF cell.label[3] = "COMETH"
       THEN [method |-> "post", endpoint |-> <<"comeths">>,
             payload |-> Merge(at, [direction |-> LowerCase(cell.label[1])])]
       ELSE [method |-> "post", endpoint |-> <<"soloons">>,
             payload |-> Merge(at, [color |-> LowerCase(cell.label[1])])]

IsNotSpace(cell) == cell.label # SPACE
NonSpace(cells) == SelectSeq(cells, IsNotSpace)

\* the requests of a build after its goal fetch, without their timestamps
Creates ==
    [k \in 1..(Len(sent) - 1) |->
        [method |-> sent[k + 1].method, endpoint |-> sent[k + 1].endpoint,
         payload |-> sent[k + 1].payload]]

BuildDone == env = "build" /\ mode = "idle" /\ ended # "no"
GridFetched == response.kind = "dict" /\ "goal" \in response.keys
GoalCells == RowMajor(response.goal)

\* is seq the sequence of create requests the cells stand for
Matches(seq, cells) ==
    /\ Len(seq) = Len(cells)
    /\ \A k \in 1..Len(cells) : seq[k] = ExpectedRequest(cells[k])

\* C4: for a goal grid of SPACE, POLYANET, <DIR>_COMETH and <COLOR>_SOLOON labels
\* with recognized names, the finished build has issued exactly one create per
\* non-SPACE cell, in row-major order, with the cell's position, endpoint and
\* attribute, and none for a SPACE cell.
C4_RowMajorCreates ==
    (BuildDone /\ GridFetched /\ \A k \in 1..Len(GoalCells) : DefinedLabel(GoalCells[k].label))
        => /\ ended = "returned"
           /\ Matches(Creates, NonSpace(GoalCells))

\* the grid of the spec's example has been built
C4_Witness ==
    /\ BuildDone
    /\ GridFetched
    /\ response.goal = << <<SPACE, POLYANET>>,
                          <<Label("RED", "SOLOON"), Label("UP", "COMETH")>> >>
    /\ Len(sent) = 4

\* index in row-major order of the first invalid label, 0 if there is none
FirstInvalid(cells) ==
    LET bad == {k \in 1..Len(cells) : InvalidLabel(cells[k].label)}
    IN IF bad = {} THEN 0 ELSE CHOOSE k \in bad : \A m \in bad : k <= m

NoUndefinedBefore(cells, n) == \A k \in 1..n : ~UndefinedLabel(cells[k].label)

\* C5: when the grid holds a label with an unrecognized direction or color, the
\* build never issues a create for that cell or a later one, and it ends there,
\* having issued the creates of all earlier non-SPACE cells.
C5_FailFast ==
    (env = "build" /\ GridFetched /\ FirstInvalid(GoalCells) # 0
       /\ NoUndefinedBefore(GoalCells, FirstInvalid(GoalCells)))
        => LET before == NonSpace(SubSeq(GoalCells, 1, FirstInvalid(GoalCells) - 1))
           IN /\ Len(Creates) <= Len(before)
              /\ BuildDone => (ended = "aborted" /\ Matches(Creates, before))

\* a build stopped at an invalid label with a create before it and a placeable
\* cell after it
C5_Witness ==
    /\ BuildDone
    /\ ended = "aborted"
    /\ GridFetched
    /\ Len(sent) = 2
    /\ FirstInvalid(GoalCells) = 2
    /\ Len(GoalCells) >= 3
    /\ GoalCells[3].label = POLYANET

CleanGrid ==
    \A k \in 1..Len(GoalCells) :
        ~InvalidLabel(GoalCells[k].label) /\ ~UndefinedLabel(GoalCells[k].label)

\* C6: no transport fault leaves the build, and on a grid without an invalid
\* label the build passes the last row and has dispatched a create for every
\* non-SPACE cell, whichever requests failed.
C6_FailuresDoNotStop ==
    /\ env = "build" => raised \notin Faults
    /\ (BuildDone /\ GridFetched /\ CleanGrid)
         => /\ ended = "returned"
            /\ li = Len(response.goal)
            /\ Len(sent) - 1 = Len(NonSpace(GoalCells))

\* a finished build of three placeable cells whose first and last create failed
C6_Witness ==
    /\ BuildDone
    /\ GridFetched
    /\ ended = "returned"
    /\ Len(results) = 4
    /\ results[2].outcome # "ok"
    /\ results[3].outcome = "ok"
    /\ results[4].outcome # "ok"

\* the message each fault is logged with
FaultMessage(r) ==
    CASE r = "HTTPError" -> "HTTP Error"
      [] r \in {"ConnectionError", "ConnectTimeout"} -> "Error Connecting"
      [] r = "ReadTimeout" -> "Timeout Error"
      [] OTHER -> "Something weird went wrong"

\* C7: _handle_requests always returns: the decoded body when the transport
\* succeeded, None after one error log when it failed in any way; no fault
\* reaches the caller.
C7_AlwaysReturns ==
    /\ raised = "none"
    /\ pc \in {"ret", "idle"} => Len(completed) = Len(sent)
    /\ (pc = "ret" /\ Len(results) > 0) =>
          LET last == results[Len(results)]
          IN IF last.outcome = "ok"
             THEN retval = last.body
             ELSE /\ retval = None
                  /\ Len(log) > 0
                  /\ log[Len(log)] = <<"ERROR", FaultMessage(last.outcome)>>

\* a read timeout came back as None, a redirect loop before it
C7_Witness ==
    /\ pc = "ret"
    /\ Len(results) = 2
    /\ results[1].outcome = "TooManyRedirects"
    /\ results[2].outcome = "ReadTimeout"
    /\ retval = None

\* C8 as stated: every request body carries candidateId equal to the configured
\* candidate id, whatever fields the caller supplied
C8_CandidateIdKept ==
    \A k \in 1..Len(sent) :
        /\ "candidateId" \in DOMAIN sent[k].payload
        /\ sent[k].payload.candidateId = candidate_id

\* C9 as stated: a build whose goal fetch gave no grid ends silently, without
\* raising and without a create request
C9_SilentWithoutGrid ==
    (BuildDone /\ ~GridFetched)
        => /\ ended = "returned"
           /\ raised = "none"
           /\ Len(sent) = 1
           /\ calls = 0

ObjectRequests == {k \in 1..Len(sent) : sent[k].method \in {"post", "delete"}}

\* C10: between calls, the number of create / delete requests issued equals the
\* number of create / delete calls made, whatever positions were requested.
C10_OneRequestPerCall ==
    (mode = "idle" /\ pc = "idle") => Cardinality(ObjectRequests) = calls

\* the same create was requested twice
C10_Witness ==
    /\ mode = "idle"
    /\ calls = 2
    /\ Len(sent) = 2
    /\ sent[1].method = "post"
    /\ sent[1].endpoint = sent[2].endpoint
    /\ sent[1].method = sent[2].method
    /\ sent[1].payload = sent[2].payload

\* C11: no request is retried: every dispatch hands exactly one request to the
\* transport whatever its outcome, a build issues one goal fetch, first, and at
\* most one create per cell of the grid, even when requests fail.
C11_NoRetry ==
    /\ Len(sent) <= Len(stamps)
    /\ pc \in {"ret", "idle"} => (Len(sent) = Len(stamps) /\ Len(results) = Len(sent))
    /\ env = "build" =>
         /\ \A k \in 1..Len(sent) : (sent[k].method = "get") <=> (k = 1)
         /\ \A k, m \in 2..Len(sent) : Position(sent[k]) = Position(sent[m]) => k = m
         /\ \A k \in 2..Len(sent) :
               \E c \in 1..Len(GoalCells) :
                  /\ Position(sent[k]) = <<GoalCells[c].row, GoalCells[c].column>>
                  /\ GoalCells[c].label # SPACE

\* a finished build whose goal fetch succeeded and whose two creates both failed
C11_Witness ==
    /\ BuildDone
    /\ Len(sent) = 3
    /\ results[2].outcome # "ok"
    /\ results[3].outcome # "ok"

\* C12: a request is handed to the transport only after the one throttle step of
\* its own dispatch, at most one request is in flight, and a request has
\* completed before the throttle step and the send of the next one begin.
C12_OneAtATime ==
    /\ Len(sent) - Len(completed) = (IF pc = "inflight" THEN 1 ELSE 0)
    /\ Len(stamps) - Len(sent) = (IF pc = "send" THEN 1 ELSE 0)
    /\ \A k \in 1..Len(sent) : stamps[k] <= sent[k].at
    /\ \A k \in 1..Len(completed) : sent[k].at <= completed[k]
    /\ \A k \in Pairs(stamps) : completed[k] <= stamps[k + 1]

\* the create of the first cell has failed and the throttle step of the next
\* cell's create is sleeping
C12_Witness ==
    /\ mode = "logo"
    /\ pc = "sleep"
    /\ Len(completed) = 2
    /\ results[2].outcome # "ok"
    /\ clock < wake_at

\* the timestamp the running throttle step compares with: the one recorded by the
\* previous throttle step, or the construction time of the client
PreviousStamp == IF stamps = <<>> THEN 0 ELSE stamps[Len(stamps)]

\* C13: a throttle step asks for a wait of exactly max(0, d - (now - t_last)),
\* t_last being the previous stamp or the construction time: never more than d,
\* zero once d has elapsed; the new timestamp is recorded only after the wait.
C13_ExactWait ==
    /\ pc \in {"sleep", "record"} =>
         LET now == wake_at - wait_time
             elapsed == now - PreviousStamp
         IN /\ last_request_time = PreviousStamp
            /\ wait_time = (IF request_delay - elapsed > 0 THEN request_delay - elapsed ELSE 0)
            /\ wait_time >= 0 /\ wait_time <= request_delay
            /\ elapsed >= request_delay => (wait_time = 0 /\ pc = "record")
            /\ pc = "record" => clock >= wake_at
    /\ pc = "send" => (last_request_time = PreviousStamp /\ last_request_time >= wake_at)

\* a second throttle step that has waited part of the delay and is about to
\* record its timestamp
C13_Witness ==
    /\ pc = "record"
    /\ Len(stamps) = 1
    /\ wait_time > 0
    /\ wait_time < request_delay
    /\ clock = wake_at

NoUndefinedLabel == NoUndefinedBefore(GoalCells, Len(GoalCells))

\* the cell the loops stand at
AtCell(cell) == cell.row = li /\ cell.column = lj

\* a finished build stopped after the last cell of a grid without invalid label,
\* or at the first cell with an unrecognized color or direction
C14_StopPoint ==
    (BuildDone /\ GridFetched /\ NoUndefinedLabel) =>
        \/ /\ ended = "returned"
           /\ li = Len(response.goal)
           /\ FirstInvalid(GoalCells) = 0
        \/ /\ ended = "aborted"
           /\ FirstInvalid(GoalCells) # 0
           /\ AtCell(GoalCells[FirstInvalid(GoalCells)])

\* C14: every build terminates, and on a grid of defined labels it terminates
\* after the last cell or at the first unrecognized color / direction, never
\* because a request failed.
C14_Terminates == (<>BuildDone) /\ []C14_StopPoint

\* a build that ended at an invalid label after a failed create
C14_Witness ==
    /\ BuildDone
    /\ ended = "aborted"
    /\ Len(results) = 2
    /\ results[2].outcome # "ok"
    /\ lj = 1

DirectionNames == {"UP", "DOWN", "RIGHT", "LEFT"}
ColorNames == {"BLUE", "RED", "PURPLE", "WHITE"}

\* a label of exactly two parts
TwoPart(l) == Len(l) = 3 /\ l[1] # "_" /\ l[2] = "_" /\ l[3] # "_"

\* every cell before the k-th has a defined label, so the build reaches cell k
Reached(k) == \A m \in 1..(k - 1) : DefinedLabel(GoalCells[m].label)

\* the number of requests issued before the build reaches cell k
SentBefore(k) == 1 + Len(NonSpace(SubSeq(GoalCells, 1, k - 1)))

\* the build ended at this cell, having logged the name and sent nothing for it
AbortedAt(cell, k) ==
    /\ ended = "aborted"
    /\ AtCell(cell)
    /\ Len(sent) = SentBefore(k)
    /\ log # <<>>
    /\ log[Len(log)] = <<"ERROR", "Invalid Soloon direction", <<cell.label[1]>>>>

\* the request after those of the earlier cells creates this marker
CreatedAt(cell, k, endpoint, attribute) ==
    /\ Len(sent) > SentBefore(k)
    /\ sent[SentBefore(k) + 1].method = "post"
    /\ sent[SentBefore(k) + 1].endpoint = <<endpoint>>
    /\ sent[SentBefore(k) + 1].payload =
           Merge([candidateId |-> candidate_id, row |-> cell.row, column |-> cell.column],
                 attribute)

\* C15: a two-part label with second part COMETH is a direction marker when its
\* first part is a direction name and ends the build otherwise; a two-part label
\* with any other second part is a color marker when its first part is a color
\* name and ends the build otherwise.
C15_SecondSegment ==
    (BuildDone /\ GridFetched) =>
        \A k \in 1..Len(GoalCells) :
            LET cell == GoalCells[k]
                first == cell.label[1]
            IN (TwoPart(cell.label) /\ Reached(k)) =>
                 IF cell.label[3] = "COMETH"
                 THEN IF first \in DirectionNames
                      THEN CreatedAt(cell, k, "comeths", [direction |-> LowerCase(first)])
                      ELSE AbortedAt(cell, k)
                 ELSE IF first \in ColorNames
                      THEN CreatedAt(cell, k, "soloons", [color |-> LowerCase(first)])
                      ELSE AbortedAt(cell, k)

\* a color with an unknown second part was created as a color marker, and the
\* same color in a _COMETH label then ended the build
C15_Witness ==
    /\ BuildDone /\ GridFetched
    /\ Len(GoalCells) = 2
    /\ GoalCells[1].label = Label("RED", "FOO")
    /\ GoalCells[2].label = Label("RED", "COMETH")
    /\ ended = "aborted"
    /\ Len(sent) = 2
    /\ sent[2].endpoint = <<"soloons">>

IsObjectRequest(r) == r.method \in {"post", "delete"}

\* the create / delete requests issued so far, in order
ObjectSent == SelectSeq(sent, IsObjectRequest)

\* the category endpoint of a typed repository operation
CategoryEndpoint(name) ==
    CASE name \in {"create_soloon", "delete_soloon"} -> <<"soloons">>
      [] name \in {"create_cometh", "delete_cometh"} -> <<"comeths">>
      [] name \in {"create_polyanet", "delete_polyanet"} -> <<"polyanets">>

\* the request a typed repository operation stands for
OperationRequest(call) ==
    LET at == [candidateId |-> candidate_id, row |-> call.row, column |-> call.column]
    IN [method |-> IF call.name \in {"delete_soloon", "delete_cometh", "delete_polyanet"}
                   THEN "delete" ELSE "post",
        endpoint |-> CategoryEndpoint(call.name),
        payload |-> CASE call.name = "create_soloon" -> Merge(at, [color |-> call.attr])
                      [] call.name = "create_cometh" -> Merge(at, [direction |-> call.attr])
                      [] OTHER -> at]

\* C16: the k-th repository operation called issued the k-th create / delete
\* request and no other: a post to its category's endpoint with row, column and
\* the attribute (color, direction, none for polyanets) for a create, a delete
\* to the same endpoint with row and column only for a delete.
C16_OneDispatchPerOperation ==
    /\ Len(ObjectSent) <= Len(invoked)
    /\ Len(invoked) <= Len(ObjectSent) + 1
    /\ (mode = "idle" /\ pc = "idle") => Len(ObjectSent) = Len(invoked)
    /\ \A k \in 1..Len(ObjectSent) :
          LET r == ObjectSent[k]
          IN IF invoked[k].name = "create_object"
             THEN r.method = "post"
             ELSE /\ r.method = OperationRequest(invoked[k]).method
                  /\ r.endpoint = OperationRequest(invoked[k]).endpoint
                  /\ r.payload = OperationRequest(invoked[k]).payload
                  /\ r.method = "delete" =>
                        DOMAIN r.payload = {"candidateId", "row", "column"}

\* a direction marker was created and then deleted at the same position
C16_Witness ==
    /\ mode = "idle" /\ pc = "idle"
    /\ Len(invoked) = 2
    /\ invoked[1].name = "create_cometh"
    /\ invoked[2].name = "delete_cometh"
    /\ Len(sent) = 2
    /\ sent[1].endpoint = sent[2].endpoint
    /\ "direction" \in DOMAIN sent[1].payload
    /\ "direction" \notin DOMAIN sent[2].payload

\* the error entry the dispatcher logs for the k-th request, if it failed
ErrorEntries(k) ==
    IF results[k].outcome = "ok" THEN <<>>
    ELSE << <<"ERROR", FaultMessage(results[k].outcome)>> >>

\* the success notice of the create / delete call that issued the k-th request
NoticeEntries(k) ==
    IF ~IsObjectRequest(sent[k]) THEN <<>>
    ELSE << <<"INFO",
              CASE sent[k].endpoint = <<"polyanets">> -> "Polyanets"
                [] sent[k].endpoint = <<"soloons">> -> "Soloons"
                [] sent[k].endpoint = <<"comeths">> -> "Comeths",
              "successfully",
              IF sent[k].method = "post" THEN "created" ELSE "deleted">> >>

\* the log after the calls that issued the first n requests have returned
RECURSIVE ExpectedLog(_)
ExpectedLog(n) ==
    IF n = 0 THEN <<>> ELSE ExpectedLog(n - 1) \o ErrorEntries(n) \o NoticeEntries(n)

\* C17: each create / delete call logs one success notice after its dispatch
\* returned, whether the request succeeded or failed; a failed request logs one
\* error before it, from the dispatcher, and nothing else.
C17_OneNoticePerCall ==
    /\ (mode = "idle" /\ pc = "idle") => log = ExpectedLog(Len(sent))
    /\ (mode = "single" /\ pc = "ret") =>
          /\ Len(results) = Len(sent)
          /\ log = ExpectedLog(Len(sent) - 1) \o ErrorEntries(Len(sent))

\* a delete that timed out and a create that succeeded have both returned
C17_Witness ==
    /\ mode = "idle" /\ pc = "idle"
    /\ Len(sent) = 2
    /\ sent[1].method = "delete"
    /\ results[1].outcome = "ReadTimeout"
    /\ sent[2].method = "post"
    /\ results[2].outcome = "ok"
    /\ Len(log) = 3

\* one step either leaves last_request_time alone or is the throttle step's
\* assignment of the current time, which never lies before the old value
OnlyThrottleWrites ==
    /\ last_request_time' >= last_request_time
    /\ (last_request_time' # last_request_time \/ stamps' # stamps) =>
          /\ pc = "record" /\ pc' = "send"
          /\ last_request_time' = clock
          /\ stamps' = Append(stamps, clock)

\* last_request_time is the constructor's value or the last throttle stamp, and
\* every dispatched call that has gone to the transport wrote it once
WrittenOncePerCall ==
    /\ last_request_time = PreviousStamp
    /\ Len(stamps) - Len(sent) = (IF pc = "send" THEN 1 ELSE 0)
    /\ pc \in {"ret", "idle"} => Len(stamps) = Len(results)

\* C18: last_request_time changes only in the throttle step, once per dispatched
\* call and never to an earlier time; the send, the classification of the
\* outcome, the logging and the interpretation of the grid leave it unchanged.
C18_OnlyThrottleWrites == [][OnlyThrottleWrites]_vars /\ []WrittenOncePerCall

\* a build that made two requests has ended, time having passed since the
\* second throttle step
C18_Witness ==
    /\ env = "timed"
    /\ mode = "idle" /\ pc = "idle"
    /\ ended # "no"
    /\ Len(stamps) = 2
    /\ stamps[1] < stamps[2]
    /\ last_request_time < clock

====
